---- MODULE Spec2Model ----
(***************************************************************************)
(* A model of the wallpaper scraper's download core: one adapter instance  *)
(* (BaseScraper subclass) with its rate limiter (_respect_rate_limit), its *)
(* permit pool (asyncio.Semaphore), the adapters' get_wallpaper_list and   *)
(* download_wallpaper coroutines, download_file, and the drivers that call *)
(* them (BaseScraper.download_all and the sequential loops of examples/), *)
(* the page loop of main.py, and the batch of several adapters that        *)
(* examples/multi_source_downloader.py runs with gather.                   *)
(* Coroutines are interleaved at their await points only.                  *)
(***************************************************************************)
EXTENDS Integers, Sequences, FiniteSets, TLC

\* ---------------------------------------------------------------- bounds
MaxCandidates == 2
MaxN == 2
MaxRate == 2
NumPaths == 2
MaxLimit == 2
MaxPages == 2
MaxListed == 2
BatchLimit == 1
MaxSources == 2
TimeoutStep == 30
MaxNameLen == 3

\* ------------------------------------------------------------- constants
HTTP_OK == 200
InitialLastRequestTime == 0
\* base_scraper.py:20 (timeout: int = 60), config.py:14
DEFAULT_TIMEOUT == 60
\* download.py:24 (timeout: int = 60)
DOWNLOAD_FILE_TIMEOUT == 60
\* download.py:126
MAX_FILENAME_LENGTH == 255

Calls == 1..MaxCandidates
Paths == 1..NumPaths

Kinds == {"example", "wallhaven", "unsplash", "pixabay"}
Sources == {"unsplash", "wallhaven", "pixabay"}
NeedsKey == {"unsplash", "pixabay"}
Drivers == {"download_all", "loop", "direct"}

\* Which URL fields a candidate carries: its highest-ranked field, only a
\* lower-ranked one, or none at all.
UrlShapes == {"primary", "secondary", "none"}
\* A listing entry: well formed, without its identifier, or with a nested
\* element (HTML) / nested object (JSON) the parser dereferences missing/null.
EntryShapes == {"ok", "no_id", "no_child"}

Statuses == {200, 204, 404}
Failures == {"client_error", "timeout"}

Candidates == [path : Paths, urls : UrlShapes]
NoCandidate == [path |-> 0, urls |-> "none"]

NoError == <<>>
NoUrlError == <<"No URL available for download">>
NoDetailUrlError == <<"Could not find download URL on detail page">>
HttpError(s) == <<"HTTP error", s>>
NetworkError == <<"Network error downloading">>
TimeoutError == <<"Timeout downloading">>
OtherError == <<"Error downloading">>
\* What download_file can catch: the two above and any other Exception
\* (os.makedirs, aiofiles.open, f.write, int() of the content-length header).
FileFailures == Failures \cup {"error"}
\* Mutant of FailureError: the except branches return no reason.
FailureErrorEmpty(o) == NoError
FailureError(o) ==
  IF o = "timeout" THEN TimeoutError
  ELSE IF o = "client_error" THEN NetworkError
  ELSE OtherError

VARIABLES
  kind,                      \* which adapter class the instance is
  api_key,                   \* truthiness of self.api_key
  rate_limit,                \* self.rate_limit
  max_concurrent_downloads,  \* self.max_concurrent_downloads
  driver,                    \* who calls the adapter
  timeout,                   \* self.timeout
  \* the settings of a run of main.py, before the adapter is constructed
  args,                      \* the parsed command line (None: not given)
  environ,                   \* the API key variable of the source in os.environ
  file_config,               \* the keys of the configuration file
  settings,                  \* what main and the constructor arrive at
  \* the names of the files
  filename, sanitized,       \* the argument and the result of sanitize_filename
  wallpaper_data,            \* the candidate whose output path is computed
  output_path,               \* download_wallpaper's output_path
  now,                       \* asyncio event loop time()
  last_request_time,         \* self.last_request_time
  semaphore,                 \* free permits of self.semaphore
  mainPc, mainWake,          \* the driver coroutine
  wallpapers,                \* the listing result held by the driver
  call,                      \* the download_wallpaper calls, by candidate index
  finished,                  \* the calls that have ended, in that order (history)
  files,                     \* the file system under download_directory
  successful_downloads,      \* what download_all / the loop returns
  \* observation of the run (history)
  dispatches, minGap,        \* how often wait has returned; the smallest gap
                             \* seen between two consecutive returns, <<>> if none
  listWaits, listReqs,       \* returned waits / network requests of the listing
  listLastBefore,            \* last_request_time when the listing call began
  listStatus,                \* status of the listing response, 0 before it
  wellFormed, malformed,     \* of the 200 listing response: the candidates of
                             \* its well-formed entries, the number of the others
  warnings,                  \* warnings logged by the listing
  \* the command line run of main.py
  limit, pages,              \* args.limit (0: not given), args.pages
  page,                      \* the page of the loop of main
  cliPc,                     \* where main is: "off" when main does not run
  all_wallpapers,            \* len(all_wallpapers)
  pageWallpapers,            \* the listing main made for the page
  total_downloaded,          \* len(total_downloaded)
  attempted,                 \* download_wallpaper calls made so far (history)
  \* the batch of examples/multi_source_downloader.py, by source
  batchPc,                   \* where its main is: "off" when it does not run
  api_keys,                  \* whether the source's API key is configured
  tasks,                     \* where the source's download_from_... task is
  scraperLast,               \* last_request_time of the source's scraper
  scraperSem,                \* free permits of the source's scraper
  taskWake,                  \* end of the task's asyncio.sleep
  taskTodo,                  \* candidates the task's loop has yet to download
  downloaded,                \* len(downloaded) of the task
  total_downloads            \* total_downloads of main

vars == <<kind, api_key, rate_limit, max_concurrent_downloads, driver, timeout,
          args, environ, file_config, settings, filename, sanitized, wallpaper_data,
          output_path, now,
          last_request_time, semaphore, mainPc, mainWake, wallpapers, call,
          finished, files, successful_downloads, dispatches, minGap, listWaits, listReqs,
          listLastBefore, listStatus, wellFormed, malformed, warnings, limit, pages, page,
          cliPc, all_wallpapers, pageWallpapers, total_downloaded, attempted,
          batchPc, api_keys, tasks, scraperLast, scraperSem, taskWake, taskTodo,
          downloaded, total_downloads>>

setup == <<args, environ, file_config, settings>>
naming == <<filename, sanitized, wallpaper_data, output_path>>
config == <<kind, api_key, rate_limit, max_concurrent_downloads, driver, timeout,
            setup, naming>>
limiter == <<last_request_time, dispatches, minGap>>
listObs == <<listWaits, listReqs, listLastBefore, listStatus, wellFormed, malformed,
            warnings>>
cliArgs == <<limit, pages>>
cliRun == <<page, cliPc, all_wallpapers, pageWallpapers, total_downloaded>>
cli == <<cliArgs, cliRun, attempted>>
batch == <<batchPc, api_keys, tasks, scraperLast, scraperSem, taskWake, taskTodo,
           downloaded, total_downloads>>
\* Everything of the one-instance runs but the clock.
instance == <<config, cli, limiter, semaphore, mainPc, mainWake, wallpapers, call,
              finished, files, successful_downloads, listObs>>

\* ------------------------------------------------------------ rate limiter
\* base_scraper.py:81
TimeSinceLast(n, last) == n - last

\* base_scraper.py:83
MustSleep(n, last, r) == TimeSinceLast(n, last) < r

\* Mutant of WakeTime: sleeps the time elapsed instead of the time remaining.
WakeTimeElapsed(n, last, r) == n + TimeSinceLast(n, last)

\* base_scraper.py:84 : asyncio.sleep(rate_limit - time_since_last) ends no
\* earlier than this loop time.
WakeTime(n, last, r) == n + (r - TimeSinceLast(n, last))

\* base_scraper.py:86, with the observation of the gap to the previous return.
Dispatch ==
  /\ last_request_time' = now
  /\ dispatches' = dispatches + 1
  /\ minGap' = IF dispatches = 0 THEN minGap
               ELSE IF minGap = <<>> \/ now - last_request_time < minGap[1]
               THEN <<now - last_request_time>>
               ELSE minGap

\* ------------------------------------------------------------- permit pool
\* Mutant of CanAcquire: off by one, a permit is handed out when none is left.
CanAcquireOffByOne(s) == s >= 0

\* Mutant of SemRelease: the permit is not given back.
SemReleaseLost(s) == s

CanAcquire(s) == s > 0
SemAcquire(s) == s - 1
SemRelease(s) == s + 1

\* The await points inside `async with self.semaphore`.
InsidePcs == {"sleep", "detail", "track", "fetch", "write"}
Holding == {t \in Calls : call[t].pc \in InsidePcs}

NewCall == [pc |-> "none", wake |-> 0, cand |-> NoCandidate, reqs |-> 0,
            fileReqs |-> 0, existed |-> FALSE, detail |-> 0, status |-> 0,
            wrote |-> FALSE,
            result |-> "pending", error |-> NoError]

\* An optional value: None, or the value in a 1-tuple.
None == <<>>
Some(v) == <<v>>

\* config.py:10-17, with no entry for the API keys.
DEFAULT_CONFIG ==
  [download_directory |-> Some("~/Pictures/Wallpapers"), rate_limit |-> Some(1),
   max_concurrent_downloads |-> Some(3), api_key |-> None]

SettingKeys == DOMAIN DEFAULT_CONFIG
NoSettings == [k \in SettingKeys |-> None]
Unset == [k \in SettingKeys |-> Some("unset")]

\* The settings of main.py are not computed: their variables stay as they
\* are here.
NoSetup ==
  /\ args = NoSettings
  /\ environ = None
  /\ file_config = NoSettings
  /\ settings = Unset

\* A string is the sequence of its characters.
Unsanitized == <<"unset">>
\* A path is where it starts and its components after that.
NoPath == [root |-> "unset", parts |-> <<>>]
NoData == [title |-> <<>>, id |-> 0, username |-> None, category |-> <<>>,
           width |-> None, height |-> None, resolution |-> <<>>,
           download_url |-> <<>>]

\* No file name is computed: the variables stay as they are here.
NoNaming ==
  /\ filename = <<>>
  /\ sanitized = Unsanitized
  /\ wallpaper_data = NoData
  /\ output_path = NoPath

\* main.py does not run: its variables stay as they are here.
NoCli ==
  /\ limit = 0
  /\ pages = 0
  /\ page = 0
  /\ cliPc = "off"
  /\ all_wallpapers = 0
  /\ pageWallpapers = <<>>
  /\ total_downloaded = 0

\* A newly constructed adapter instance, whoever drives it.
Fresh ==
  /\ kind \in Kinds
  /\ api_key \in (IF kind = "example" THEN {FALSE} ELSE BOOLEAN)
  /\ rate_limit \in 1..MaxRate
  /\ max_concurrent_downloads \in 1..MaxN
  /\ attempted = 0
  /\ now \in {0, MaxRate}
  /\ last_request_time = InitialLastRequestTime
  /\ semaphore = max_concurrent_downloads
  /\ mainPc = "idle"
  /\ mainWake = 0
  /\ wallpapers = <<>>
  /\ call = [t \in Calls |-> NewCall]
  /\ finished = <<>>
  /\ files \in [Paths -> {"absent", "complete"}]
  /\ successful_downloads = <<>>
  /\ dispatches = 0
  /\ minGap = <<>>
  /\ listWaits = 0
  /\ listReqs = 0
  /\ listLastBefore = InitialLastRequestTime
  /\ listStatus = 0
  /\ wellFormed = <<>>
  /\ malformed = 0
  /\ warnings = 0

\* multi_source_downloader.py does not run: its variables stay as they are here.
NoBatch ==
  /\ batchPc = "off"
  /\ api_keys = [s \in Sources |-> FALSE]
  /\ tasks = [s \in Sources |-> "off"]
  /\ scraperLast = [s \in Sources |-> InitialLastRequestTime]
  /\ scraperSem = [s \in Sources |-> 0]
  /\ taskWake = [s \in Sources |-> 0]
  /\ taskTodo = [s \in Sources |-> 0]
  /\ downloaded = [s \in Sources |-> 0]
  /\ total_downloads = 0

Init ==
  /\ Fresh /\ driver \in Drivers /\ timeout = DEFAULT_TIMEOUT
  /\ NoSetup /\ NoNaming /\ NoCli /\ NoBatch

\* The loop clock advances. The program reads it in _respect_rate_limit
\* only: once rate_limit has elapsed since the last recorded request and
\* nobody sleeps, or when no caller of _respect_rate_limit is left, more time
\* changes nothing the program can observe and the clock is advanced no
\* further.
Tick ==
  /\ \/ mainPc \in {"idle", "sleep"}
     \/ \E t \in Calls : call[t].pc \in {"start", "sleep"}
     \/ mainPc = "listed" /\ \E i \in 1..Len(wallpapers) : call[i].pc = "none"
  /\ \/ TimeSinceLast(now, last_request_time) < rate_limit
     \/ mainPc = "sleep" /\ mainWake > now
     \/ \E t \in Calls : call[t].pc = "sleep" /\ call[t].wake > now
  /\ now' = now + 1
  /\ UNCHANGED <<config, batch, cli, limiter, semaphore, mainPc, mainWake, wallpapers, call, finished,
                 files, successful_downloads, listObs>>

\* ----------------------------------------------------------------- listing
\* URL fields the candidates of a listing can carry.
\* example_scraper.py:96-103 (no download_url; url from the link's href),
\* wallhaven_scraper.py:194-203 (HTML: detail URL always built),
\* wallhaven_scraper.py:123-136, unsplash_scraper.py:139-154,
\* pixabay_scraper.py:137-155 (JSON: every URL field may be null).
ListUrls(k, key) ==
  CASE k = "example" -> {"secondary", "none"}
    [] k = "wallhaven" /\ ~key -> {"secondary"}
    [] OTHER -> UrlShapes

Entries(k, key) == [shape : EntryShapes, path : Paths, urls : ListUrls(k, key)]

Responses(k, key) ==
  UNION {[1..n -> Entries(k, key)] : n \in 0..MaxCandidates}

CandidateOf(e) == [path |-> e.path, urls |-> e.urls]

\* What the parsing loop does with one entry: "append" a candidate, log a
\* "warning" (the except branch), or "skip" it silently (continue).
ParseEntry(k, key, e) ==
  CASE k = "wallhaven" /\ ~key ->
         IF e.shape = "no_id" THEN "skip" ELSE "append"
    [] OTHER ->
         IF e.shape = "no_child" THEN "warning" ELSE "append"

RECURSIVE ParseList(_, _, _)
ParseList(k, key, es) ==
  IF es = <<>> THEN <<>>
  ELSE LET rest == ParseList(k, key, Tail(es))
       IN IF ParseEntry(k, key, Head(es)) = "append"
          THEN <<CandidateOf(Head(es))>> \o rest
          ELSE rest

RECURSIVE ParseWarnings(_, _, _)
ParseWarnings(k, key, es) ==
  IF es = <<>> THEN 0
  ELSE (IF ParseEntry(k, key, Head(es)) = "warning" THEN 1 ELSE 0)
       + ParseWarnings(k, key, Tail(es))

\* The candidates of the well-formed entries of a response, in order, and
\* the number of its other entries (observation, independent of the parser).
RECURSIVE WellFormedOf(_)
WellFormedOf(es) ==
  IF es = <<>> THEN <<>>
  ELSE (IF Head(es).shape = "ok" THEN <<CandidateOf(Head(es))>> ELSE <<>>)
       \o WellFormedOf(Tail(es))

MalformedIn(es) == Cardinality({i \in DOMAIN es : es[i].shape # "ok"})

\* Mutant of ListEntry: the credential check is missing.
ListEntryNoKeyCheck(k, key) == "wait"

\* First statement of get_wallpaper_list: the credential check of the
\* adapters that need a key, otherwise the call of _respect_rate_limit.
ListEntry(k, key) ==
  IF k \in NeedsKey /\ ~key THEN "listed" ELSE "wait"

\* multi_source_downloader.py:30-32, 100-102: the loop driver does not build
\* a scraper without a key for the services that need one.
LoopSkip ==
  /\ mainPc = "idle"
  /\ driver = "loop"
  /\ kind \in NeedsKey /\ ~api_key
  /\ mainPc' = "done"
  /\ UNCHANGED <<config, batch, cli, now, limiter, semaphore, mainWake, wallpapers, call, finished,
                 files, successful_downloads, listObs>>

\* get_wallpaper_list up to its first await: the early return without a key,
\* the sleep of _respect_rate_limit, or the listing request.
ListStart ==
  /\ mainPc = "idle"
  /\ driver \in {"download_all", "loop", "cli"}
  /\ driver = "loop" => ~(kind \in NeedsKey /\ ~api_key)
  /\ listLastBefore' = last_request_time
  /\ wallpapers' = <<>>
  /\ IF ListEntry(kind, api_key) = "listed"
     THEN /\ mainPc' = "listed"
          /\ UNCHANGED <<limiter, mainWake, listWaits, listReqs>>
     ELSE IF MustSleep(now, last_request_time, rate_limit)
     THEN /\ mainPc' = "sleep"
          /\ mainWake' = WakeTime(now, last_request_time, rate_limit)
          /\ UNCHANGED <<limiter, listWaits, listReqs>>
     ELSE /\ Dispatch
          /\ mainPc' = "list_req"
          /\ listWaits' = listWaits + 1
          /\ listReqs' = listReqs + 1
          /\ UNCHANGED mainWake
  /\ UNCHANGED <<config, batch, cli, now, semaphore, call, finished, files, successful_downloads,
                 listStatus, wellFormed, malformed, warnings>>

\* asyncio.sleep of _respect_rate_limit ends; base_scraper.py:86 and the
\* listing request follow.
MainWaitWake ==
  /\ mainPc = "sleep"
  /\ now >= mainWake
  /\ Dispatch
  /\ mainPc' = "list_req"
  /\ listWaits' = listWaits + 1
  /\ listReqs' = listReqs + 1
  /\ UNCHANGED <<config, batch, cli, now, semaphore, mainWake, wallpapers, call, finished, files,
                 successful_downloads, listLastBefore, listStatus, wellFormed,
                 malformed, warnings>>

\* Mutant of StatusOk: only server errors count as failures.
StatusBelowServerError(s) == s < 500

\* Mutant of StatusOk: every 2xx status counts as a success.
StatusAny2xx(s) == s \in 200..299

StatusOk(s) == s = HTTP_OK

\* The listing request raises (aiohttp.ClientError, TimeoutError): no
\* handler in get_wallpaper_list, the exception leaves the driver.
ListFailure ==
  /\ mainPc = "list_req"
  /\ mainPc' = "raised"
  /\ UNCHANGED <<config, batch, cli, now, limiter, semaphore, mainWake, wallpapers, call, finished,
                 files, successful_downloads, listObs>>

\* Mutant of ListHttpError: the request is repeated at once after an error
\* status, without a call of _respect_rate_limit.
ListHttpErrorRetry ==
  /\ mainPc = "list_req"
  /\ listReqs < 2
  /\ listReqs' = listReqs + 1
  /\ UNCHANGED <<config, batch, cli, now, limiter, semaphore, mainPc, mainWake, wallpapers,
                 call, finished, files, successful_downloads, listWaits, listLastBefore,
                 listStatus, wellFormed, malformed, warnings>>

\* The listing response has a status other than 200: the empty list.
ListHttpError ==
  /\ mainPc = "list_req"
  /\ \E s \in Statuses :
       /\ ~StatusOk(s)
       /\ listStatus' = s
       /\ wallpapers' = <<>>
       /\ mainPc' = "listed"
  /\ UNCHANGED <<config, batch, cli, now, limiter, semaphore, mainWake, call, finished, files,
                 successful_downloads, listWaits, listReqs, listLastBefore,
                 wellFormed, malformed, warnings>>

ListOk ==
  /\ mainPc = "list_req"
  /\ \E s \in Statuses, es \in Responses(kind, api_key) :
       /\ StatusOk(s)
       /\ listStatus' = s
       /\ wellFormed' = WellFormedOf(es)
       /\ malformed' = MalformedIn(es)
       /\ wallpapers' = ParseList(kind, api_key, es)
       /\ warnings' = warnings + ParseWarnings(kind, api_key, es)
       /\ mainPc' = "listed"
  /\ UNCHANGED <<config, batch, cli, now, limiter, semaphore, mainWake, call, finished, files,
                 successful_downloads, listWaits, listReqs, listLastBefore>>

\* ----------------------------------------------------------------- drivers
\* A caller of the public download_wallpaper with candidates of its own.
DirectSupply ==
  /\ mainPc = "idle"
  /\ driver = "direct"
  /\ wallpapers' \in UNION {[1..n -> Candidates] : n \in 1..MaxCandidates}
  /\ mainPc' = "listed"
  /\ UNCHANGED <<config, batch, cli, now, limiter, semaphore, mainWake, call, finished, files,
                 successful_downloads, listObs>>

StartedCall(c) == [NewCall EXCEPT !.pc = "start", !.cand = c]

\* A call whose result the driver has taken; what was observed of it is dropped.
Collected == [NewCall EXCEPT !.pc = "collected"]

\* The observation of the listing call is dropped when the driver goes on.
ForgetListing ==
  /\ listWaits' = 0
  /\ listReqs' = 0
  /\ listLastBefore' = InitialLastRequestTime
  /\ listStatus' = 0
  /\ wellFormed' = <<>>
  /\ malformed' = 0
  /\ warnings' = 0

\* download_all runs: called by itself, or by main for the page.
InDownloadAll ==
  driver = "download_all" \/ (driver = "cli" /\ cliPc = "download_all")

\* base_scraper.py:70-71: one task per candidate, all handed to gather.
Gather ==
  /\ mainPc = "listed"
  /\ InDownloadAll
  /\ attempted' = attempted + Len(wallpapers)
  /\ call' = [t \in Calls |->
                IF t <= Len(wallpapers) THEN StartedCall(wallpapers[t])
                ELSE call[t]]
  /\ mainPc' = "gathering"
  /\ ForgetListing
  /\ UNCHANGED <<finished, config, batch, cliArgs, cliRun, now, limiter, semaphore, mainWake, wallpapers, files,
                 successful_downloads>>

\* Mutant of PathsOf: the paths come in the order the calls ended in.
PathsOfAsCompleted(c, n) ==
  LET IsPath(t) == t <= n /\ c[t].result = "path"
      ok == SelectSeq(finished, IsPath)
  IN [i \in 1..Len(ok) |-> c[ok[i]].cand.path]

\* Mutant of PathsOf: the results are not filtered.
PathsOfAll(c, n) == [i \in 1..n |-> c[i].cand.path]

RECURSIVE PathsOf(_, _)
\* The results that are paths, in candidate order (base_scraper.py:74).
PathsOf(c, n) ==
  IF n = 0 THEN <<>>
  ELSE PathsOf(c, n - 1) \o
       (IF c[n].result = "path" THEN <<c[n].cand.path>> ELSE <<>>)

\* base_scraper.py:74-76: what download_all returns besides
\* successful_downloads about the results that are None or exceptions:
\* nothing, they are dropped by the filter.
failed_downloads == <<>>

\* Mutant of GatherDone: the driver goes on as soon as one task has ended.
GatherDoneFirstCompleted ==
  /\ mainPc = "gathering"
  /\ \E t \in 1..Len(wallpapers) : call[t].pc = "done"
  /\ successful_downloads' = PathsOf(call, Len(wallpapers))
  /\ call' = [t \in Calls |-> IF call[t].pc = "done" THEN Collected ELSE call[t]]
  /\ mainPc' = "done"
  /\ UNCHANGED <<finished, config, batch, cli, now, limiter, semaphore, mainWake, wallpapers, files,
                 listObs>>

\* base_scraper.py:71-76: gather returns when every task has ended; the
\* results that are not paths (None, exceptions) are filtered out.
GatherDone ==
  /\ mainPc = "gathering"
  /\ \A t \in 1..Len(wallpapers) : call[t].pc = "done"
  /\ successful_downloads' = PathsOf(call, Len(wallpapers))
  /\ call' = [t \in Calls |-> IF call[t].pc = "done" THEN Collected ELSE call[t]]
  /\ mainPc' = "done"
  /\ UNCHANGED <<finished, config, batch, cli, now, limiter, semaphore, mainWake, wallpapers, files,
                 listObs>>

Started == {t \in Calls : call[t].pc # "none"}

\* multi_source_downloader.py:55-58: the loop awaits one download_wallpaper
\* at a time ...
LoopNext ==
  /\ mainPc = "listed"
  /\ driver \in {"loop", "direct"}
  /\ \A t \in Started : call[t].pc = "collected"
  /\ Cardinality(Started) < Len(wallpapers)
  /\ LET i == Cardinality(Started) + 1
     IN call' = [call EXCEPT ![i] = StartedCall(wallpapers[i])]
  /\ attempted' = attempted + 1
  /\ ForgetListing
  /\ UNCHANGED <<finished, config, batch, cliArgs, cliRun, now, limiter, semaphore, mainPc, mainWake, wallpapers,
                 files, successful_downloads>>

\* ... and appends the path it returns, if any.
LoopCollect ==
  /\ mainPc = "listed"
  /\ driver \in {"loop", "direct"}
  /\ \E t \in Started :
       /\ call[t].pc = "done"
       /\ call[t].result # "exception"
       /\ successful_downloads' =
            IF call[t].result = "path"
            THEN Append(successful_downloads, call[t].cand.path)
            ELSE successful_downloads
       /\ call' = [call EXCEPT ![t] = Collected]
  /\ UNCHANGED <<finished, config, batch, cli, now, limiter, semaphore, mainPc, mainWake, wallpapers,
                 files, listObs>>

\* An exception of download_wallpaper is not caught by the loop.
LoopRaise ==
  /\ mainPc = "listed"
  /\ driver \in {"loop", "direct"}
  /\ \E t \in Started : call[t].pc = "done" /\ call[t].result = "exception"
  /\ mainPc' = "raised"
  /\ UNCHANGED <<config, batch, cli, now, limiter, semaphore, mainWake, wallpapers, call, finished,
                 files, successful_downloads, listObs>>

LoopDone ==
  /\ mainPc = "listed"
  /\ driver \in {"loop", "direct"}
  /\ Cardinality(Started) = Len(wallpapers)
  /\ \A t \in Started : call[t].pc = "collected"
  /\ mainPc' = "done"
  /\ ForgetListing
  /\ UNCHANGED <<config, batch, cli, now, limiter, semaphore, mainWake, wallpapers, call, finished,
                 files, successful_downloads>>

\* main.py:106, 126-131: on to the next page, or out of the loop.
NextPage ==
  IF page < pages
  THEN page' = page + 1 /\ cliPc' = "listing" /\ mainPc' = "idle"
  ELSE page' = page /\ cliPc' = "ended" /\ mainPc' = "done"

\* main.py:111-130: the get_wallpaper_list call main made for the page has
\* returned; the limit is applied to all_wallpapers, and download_all is
\* called (without arguments) when the page has candidates.
CliListed ==
  /\ driver = "cli" /\ cliPc = "listing" /\ mainPc = "listed"
  /\ pageWallpapers' = wallpapers
  /\ LET n == all_wallpapers + Len(wallpapers)
     IN IF limit > 0 /\ n > limit
        THEN /\ all_wallpapers' = limit
             /\ cliPc' = "ended" /\ mainPc' = "done"
             /\ UNCHANGED page
        ELSE /\ all_wallpapers' = n
             /\ IF wallpapers # <<>>
                THEN cliPc' = "download_all" /\ mainPc' = "idle" /\ UNCHANGED page
                ELSE NextPage
  /\ ForgetListing
  /\ UNCHANGED <<config, batch, cliArgs, total_downloaded, attempted, now, limiter,
                 semaphore, mainWake, wallpapers, call, finished, files,
                 successful_downloads>>

\* main.py:130-131: download_all has returned for the page.
CliDownloaded ==
  /\ driver = "cli" /\ cliPc = "download_all" /\ mainPc = "done"
  /\ total_downloaded' = total_downloaded + Len(successful_downloads)
  /\ successful_downloads' = <<>>
  /\ call' = [t \in Calls |-> NewCall]
  /\ finished' = <<>>
  /\ NextPage
  /\ UNCHANGED <<config, batch, cliArgs, all_wallpapers, pageWallpapers, attempted, now,
                 limiter, semaphore, mainWake, wallpapers, files, listObs>>

\* ------------------------------------------------------ download_wallpaper
\* The call returns res (a path, None) or raises ("exception").
Ret(c, res, err) == [c EXCEPT !.pc = "done", !.result = res, !.error = err]

\* How each adapter gets the download URL from the candidate's URL fields:
\* it has a "url", it must fetch the "detail" page first, or it has "none".
ResolveUrl(k, u) ==
  CASE k = "example" -> IF u = "none" THEN "none" ELSE "url"
    [] k = "wallhaven" ->
         IF u = "primary" THEN "url" ELSE IF u = "secondary" THEN "detail" ELSE "none"
    [] k = "unsplash" -> IF u = "primary" THEN "url" ELSE "none"
    [] k = "pixabay" -> IF u = "none" THEN "none" ELSE "url"

\* Mutant of Exists: the existence check is missing.
ExistsIgnored(f, p) == FALSE

\* output_path.exists()
Exists(f, p) == f[p] # "absent"

\* unsplash_scraper.py:211
Tracks(k, key, hasLink) == k = "unsplash" /\ hasLink /\ key

\* download_wallpaper from the computed output path to its next await: the
\* return of an existing path, the download-tracking request, or the file
\* request of download_file. `existed` observes the file system itself.
AfterUrl(k, key, c, f, hasLink) ==
  LET c1 == [c EXCEPT !.existed = (f[c.cand.path] # "absent")]
  IN IF Exists(f, c.cand.path) THEN Ret(c1, "path", NoError)
     ELSE IF Tracks(k, key, hasLink)
     THEN [c1 EXCEPT !.pc = "track", !.reqs = @ + 1]
     ELSE [c1 EXCEPT !.pc = "fetch", !.reqs = @ + 1, !.fileReqs = @ + 1]

\* download_wallpaper from the return of _respect_rate_limit to its next await.
AfterWait(k, key, c, f, hasLink) ==
  LET r == ResolveUrl(k, c.cand.urls)
  IN CASE r = "none" -> Ret(c, "none", NoUrlError)
       [] r = "detail" -> [c EXCEPT !.pc = "detail", !.reqs = @ + 1]
       [] r = "url" -> AfterUrl(k, key, c, f, hasLink)

\* Mutant of Continue: the permit is given back by a call that returns a
\* path only, not by one that fails.
ContinueLeaky(t, c, s) ==
  /\ call' = [call EXCEPT ![t] = c]
  /\ finished' = IF c.pc = "done" THEN Append(finished, t) ELSE finished
  /\ semaphore' = IF c.pc = "done" /\ c.result = "path" THEN SemRelease(s) ELSE s

\* The call goes on as c holding a permit of the pool whose value is s;
\* __aexit__ of `async with self.semaphore` releases it when the call ends.
Continue(t, c, s) ==
  /\ call' = [call EXCEPT ![t] = c]
  /\ finished' = IF c.pc = "done" THEN Append(finished, t) ELSE finished
  /\ semaphore' = IF c.pc = "done" THEN SemRelease(s) ELSE s

\* `async with self.semaphore` (the call is suspended while no permit is
\* free), then _respect_rate_limit up to its await or, without a sleep, on to
\* the next await of download_wallpaper.
Start(t) ==
  /\ call[t].pc = "start"
  /\ CanAcquire(semaphore)
  /\ IF MustSleep(now, last_request_time, rate_limit)
     THEN /\ call' = [call EXCEPT ![t].pc = "sleep",
                        ![t].wake = WakeTime(now, last_request_time, rate_limit)]
          /\ semaphore' = SemAcquire(semaphore)
          /\ UNCHANGED <<limiter, finished>>
     ELSE /\ Dispatch
          /\ \E hasLink \in BOOLEAN :
               Continue(t, AfterWait(kind, api_key, call[t], files, hasLink),
                        SemAcquire(semaphore))
  /\ UNCHANGED <<config, batch, cli, now, mainPc, mainWake, wallpapers, files,
                 successful_downloads, listObs>>

\* asyncio.sleep of _respect_rate_limit ends: base_scraper.py:86, then on to
\* the next await of download_wallpaper.
Wake(t) ==
  /\ call[t].pc = "sleep"
  /\ now >= call[t].wake
  /\ Dispatch
  /\ \E hasLink \in BOOLEAN :
       Continue(t, AfterWait(kind, api_key, call[t], files, hasLink), semaphore)
  /\ UNCHANGED <<config, batch, cli, now, mainPc, mainWake, wallpapers, files,
                 successful_downloads, listObs>>

\* wallhaven_scraper.py:236-243: the detail page request raises; nothing in
\* download_wallpaper handles aiohttp.ClientError or TimeoutError.
DetailFailure(t) ==
  /\ call[t].pc = "detail"
  /\ \E o \in Failures :
       Continue(t, Ret(call[t], "exception", FailureError(o)), semaphore)
  /\ UNCHANGED <<config, batch, cli, now, limiter, mainPc, mainWake, wallpapers, files,
                 successful_downloads, listObs>>

\* wallhaven_scraper.py:238-254: the detail page response; `found` says
\* whether the page has the img#wallpaper element with a src.
DetailResponse(t) ==
  /\ call[t].pc = "detail"
  /\ \E s \in Statuses, found \in BOOLEAN :
       LET c == [call[t] EXCEPT !.detail = s]
       IN Continue(t,
                   IF ~StatusOk(s) THEN Ret(c, "none", HttpError(s))
                   ELSE IF ~found THEN Ret(c, "none", NoDetailUrlError)
                   ELSE AfterUrl(kind, api_key, c, files, FALSE),
                   semaphore)
  /\ UNCHANGED <<config, batch, cli, now, limiter, mainPc, mainWake, wallpapers, files,
                 successful_downloads, listObs>>

\* Mutant of TrackResponse: the limiter is passed once more before the file
\* request.
TrackResponseWaits(t) ==
  /\ call[t].pc = "track"
  /\ Dispatch
  /\ call' = [call EXCEPT ![t].pc = "fetch", ![t].reqs = @ + 1,
                          ![t].fileReqs = @ + 1]
  /\ UNCHANGED <<finished, config, batch, cli, now, semaphore, mainPc, mainWake, wallpapers,
                 files, successful_downloads, listObs>>

\* unsplash_scraper.py:212-224: the response status is ignored and every
\* exception is caught; download_file is called next.
TrackResponse(t) ==
  /\ call[t].pc = "track"
  /\ call' = [call EXCEPT ![t].pc = "fetch", ![t].reqs = @ + 1,
                          ![t].fileReqs = @ + 1]
  /\ UNCHANGED <<finished, config, batch, cli, now, limiter, semaphore, mainPc, mainWake, wallpapers,
                 files, successful_downloads, listObs>>

\* Mutant of FetchFailure: the file request is made once more after it failed.
FetchFailureRetry(t) ==
  /\ call[t].pc = "fetch"
  /\ call[t].fileReqs < 2
  /\ call' = [call EXCEPT ![t].reqs = @ + 1, ![t].fileReqs = @ + 1]
  /\ UNCHANGED <<finished, config, batch, cli, now, limiter, semaphore, mainPc, mainWake, wallpapers,
                 files, successful_downloads, listObs>>

\* download_file: session.get raises, the except branches return the error.
FetchFailure(t) ==
  /\ call[t].pc = "fetch"
  /\ \E o \in FileFailures :
       Continue(t, Ret(call[t], "none", FailureError(o)), semaphore)
  /\ UNCHANGED <<config, batch, cli, now, limiter, mainPc, mainWake, wallpapers, files,
                 successful_downloads, listObs>>

\* download_file, from the response of session.get to the opened file.
FetchResponse(t) ==
  /\ call[t].pc = "fetch"
  /\ \E s \in Statuses :
       LET c == [call[t] EXCEPT !.status = s]
       IN IF ~StatusOk(s)
          THEN /\ Continue(t, Ret(c, "none", HttpError(s)), semaphore)
               /\ UNCHANGED files
          ELSE /\ Continue(t, [c EXCEPT !.pc = "write", !.wrote = TRUE], semaphore)
               /\ files' = [files EXCEPT ![c.cand.path] = "partial"]
  /\ UNCHANGED <<config, batch, cli, now, limiter, mainPc, mainWake, wallpapers,
                 successful_downloads, listObs>>

\* download_file, the chunk loop: the whole body has been written.
WriteDone(t) ==
  /\ call[t].pc = "write"
  /\ files' = [files EXCEPT ![call[t].cand.path] = "complete"]
  /\ Continue(t, Ret(call[t], "path", NoError), semaphore)
  /\ UNCHANGED <<config, batch, cli, now, limiter, mainPc, mainWake, wallpapers,
                 successful_downloads, listObs>>

\* download_file, the chunk loop: the transfer fails part-way, the except
\* branches return the error and the file stays as far as it was written.
WriteFailure(t) ==
  /\ call[t].pc = "write"
  /\ \E o \in FileFailures :
       Continue(t, Ret(call[t], "none", FailureError(o)), semaphore)
  /\ UNCHANGED <<config, batch, cli, now, limiter, mainPc, mainWake, wallpapers, files,
                 successful_downloads, listObs>>

\* ------------------------------------- examples/multi_source_downloader.py
\* One download_from_... task per selected source, each with a scraper of its
\* own, run together by gather. A download_wallpaper call is followed here
\* from its wait to its end; what it requests and writes is in the actions
\* above.
\* multi_source_downloader.py:40-41, 71-72, 110-111
SourceRate(s) == IF s = "wallhaven" THEN 2 ELSE 1
SourcePermits(s) == IF s = "wallhaven" THEN 2 ELSE 3

\* Mutant of LimiterOf: last_request_time is one attribute for all scrapers.
LimiterShared(s) == "unsplash"

\* base_scraper.py:35-36: the limiter state and the pool are attributes of
\* the instance; each task constructs its own scraper.
LimiterOf(s) == s
PoolOf(s) == s

Min(a, b) == IF a < b THEN a ELSE b

\* _respect_rate_limit of the scraper of s up to its await, or through.
TaskWait(s, through, asleep) ==
  IF MustSleep(now, scraperLast[LimiterOf(s)], SourceRate(s))
  THEN /\ tasks' = [tasks EXCEPT ![s] = asleep]
       /\ taskWake' = [taskWake EXCEPT ![s] =
                         WakeTime(now, scraperLast[LimiterOf(s)], SourceRate(s))]
       /\ UNCHANGED scraperLast
  ELSE /\ tasks' = [tasks EXCEPT ![s] = through]
       /\ scraperLast' = [scraperLast EXCEPT ![LimiterOf(s)] = now]
       /\ UNCHANGED taskWake

\* asyncio.sleep of _respect_rate_limit ends, base_scraper.py:86.
TaskWoken(s, asleep, through) ==
  /\ tasks[s] = asleep
  /\ now >= taskWake[s]
  /\ tasks' = [tasks EXCEPT ![s] = through]
  /\ scraperLast' = [scraperLast EXCEPT ![LimiterOf(s)] = now]
  /\ UNCHANGED <<instance, now, batchPc, api_keys, scraperSem, taskWake,
                 taskTodo, downloaded, total_downloads>>

BatchTick ==
  /\ batchPc = "gathering"
  /\ \/ \E s \in Sources :
          tasks[s] \in {"list_sleep", "dl_sleep"} /\ taskWake[s] > now
     \/ \E s \in Sources :
          /\ tasks[s] \in {"start", "loop"}
          /\ TimeSinceLast(now, scraperLast[LimiterOf(s)]) < SourceRate(s)
  /\ now' = now + 1
  /\ UNCHANGED <<instance, batch>>

\* multi_source_downloader.py:30-32, 100-102
TaskSkip(s) ==
  /\ tasks[s] = "start"
  /\ s \in NeedsKey /\ ~api_keys[s]
  /\ tasks' = [tasks EXCEPT ![s] = "returned"]
  /\ UNCHANGED <<instance, now, batchPc, api_keys, scraperLast, scraperSem,
                 taskWake, taskTodo, downloaded, total_downloads>>

\* multi_source_downloader.py:37-49, 68-81, 107-121: the scraper is made and
\* get_wallpaper_list called.
TaskList(s) ==
  /\ tasks[s] = "start"
  /\ ~(s \in NeedsKey /\ ~api_keys[s])
  /\ TaskWait(s, "list_req", "list_sleep")
  /\ UNCHANGED <<instance, now, batchPc, api_keys, scraperSem, taskTodo,
                 downloaded, total_downloads>>

TaskListWake(s) == TaskWoken(s, "list_sleep", "list_req")

\* The listing request raises: nothing in download_from_... catches it.
TaskListFailure(s) ==
  /\ tasks[s] = "list_req"
  /\ tasks' = [tasks EXCEPT ![s] = "raised"]
  /\ UNCHANGED <<instance, now, batchPc, api_keys, scraperLast, scraperSem,
                 taskWake, taskTodo, downloaded, total_downloads>>

\* The listing returns n candidates (none after an error status);
\* multi_source_downloader.py:84 cuts the Wallhaven list to the limit.
TaskListed(s) ==
  /\ tasks[s] = "list_req"
  /\ \E n \in 0..MaxListed :
       taskTodo' = [taskTodo EXCEPT ![s] =
                      IF s = "wallhaven" THEN Min(n, BatchLimit) ELSE n]
  /\ tasks' = [tasks EXCEPT ![s] = "loop"]
  /\ UNCHANGED <<instance, now, batchPc, api_keys, scraperLast, scraperSem,
                 taskWake, downloaded, total_downloads>>

\* multi_source_downloader.py:55-56: the next download_wallpaper call takes a
\* permit of its scraper and waits for its limiter.
TaskDownload(s) ==
  /\ tasks[s] = "loop"
  /\ taskTodo[s] > 0
  /\ CanAcquire(scraperSem[PoolOf(s)])
  /\ scraperSem' = [scraperSem EXCEPT ![PoolOf(s)] = SemAcquire(@)]
  /\ TaskWait(s, "resolve", "dl_sleep")
  /\ UNCHANGED <<instance, now, batchPc, api_keys, taskTodo, downloaded,
                 total_downloads>>

TaskDownloadWake(s) == TaskWoken(s, "dl_sleep", "resolve")

\* The download_wallpaper call ends with a path, None or an exception: the
\* permit goes back, and the loop appends the path or the exception leaves
\* download_from_... (multi_source_downloader.py:56-58).
TaskEnd(s, outcome) ==
  /\ scraperSem' = [scraperSem EXCEPT ![PoolOf(s)] = SemRelease(@)]
  /\ IF outcome = "exception"
     THEN /\ tasks' = [tasks EXCEPT ![s] = "raised"]
          /\ UNCHANGED <<taskTodo, downloaded>>
     ELSE /\ tasks' = [tasks EXCEPT ![s] = "loop"]
          /\ taskTodo' = [taskTodo EXCEPT ![s] = @ - 1]
          /\ downloaded' = [downloaded EXCEPT ![s] =
                              IF outcome = "path" THEN @ + 1 ELSE @]

\* After the wait: no URL (None), the file exists (its path), or a request.
TaskResolve(s) ==
  /\ tasks[s] = "resolve"
  /\ \/ \E outcome \in {"none", "path"} : TaskEnd(s, outcome)
     \/ /\ tasks' = [tasks EXCEPT ![s] = "dl_req"]
        /\ UNCHANGED <<scraperSem, taskTodo, downloaded>>
  /\ UNCHANGED <<instance, now, batchPc, api_keys, scraperLast, taskWake,
                 total_downloads>>

\* The requests of the call end: download_file returns (path or None), or
\* the detail page request of the Wallhaven adapter raises.
TaskResponse(s) ==
  /\ tasks[s] = "dl_req"
  /\ \E outcome \in {"path", "none", "exception"} :
       /\ outcome = "exception" => s = "wallhaven"
       /\ TaskEnd(s, outcome)
  /\ UNCHANGED <<instance, now, batchPc, api_keys, scraperLast, taskWake,
                 total_downloads>>

\* multi_source_downloader.py:60-61, 95-96, 132-133
TaskReturn(s) ==
  /\ tasks[s] = "loop"
  /\ taskTodo[s] = 0
  /\ tasks' = [tasks EXCEPT ![s] = "returned"]
  /\ UNCHANGED <<instance, now, batchPc, api_keys, scraperLast, scraperSem,
                 taskWake, taskTodo, downloaded, total_downloads>>

TaskStep(s) ==
  \/ TaskSkip(s) \/ TaskList(s) \/ TaskListWake(s) \/ TaskListFailure(s)
  \/ TaskListed(s) \/ TaskDownload(s) \/ TaskDownloadWake(s)
  \/ TaskResolve(s) \/ TaskResponse(s) \/ TaskReturn(s)

RECURSIVE CountLists(_)
\* multi_source_downloader.py:180-185: the lengths of the results that are
\* lists; exceptions are logged.
CountLists(S) ==
  IF S = {} THEN 0
  ELSE LET s == CHOOSE x \in S : TRUE
       IN (IF tasks[s] = "returned" THEN downloaded[s] ELSE 0)
          + CountLists(S \ {s})

\* Mutant of BatchDone: gather without return_exceptions, the first
\* exception of a task leaves main at once.
BatchDoneAbort ==
  /\ batchPc = "gathering"
  /\ \/ \A s \in Sources : tasks[s] \in {"off", "returned", "raised"}
     \/ \E s \in Sources : tasks[s] = "raised"
  /\ total_downloads' =
       IF \E s \in Sources : tasks[s] = "raised" THEN 0 ELSE CountLists(Sources)
  /\ batchPc' = "done"
  /\ UNCHANGED <<instance, now, api_keys, tasks, scraperLast, scraperSem,
                 taskWake, taskTodo, downloaded>>

\* multi_source_downloader.py:177-187: gather(return_exceptions=True)
\* returns when every task has ended.
BatchDone ==
  /\ batchPc = "gathering"
  /\ \A s \in Sources : tasks[s] \in {"off", "returned", "raised"}
  /\ total_downloads' = CountLists(Sources)
  /\ batchPc' = "done"
  /\ UNCHANGED <<instance, now, api_keys, tasks, scraperLast, scraperSem,
                 taskWake, taskTodo, downloaded>>

\* multi_source_downloader.py:160-177: the keys are read, one task is made
\* per selected source (--sources).
InitBatch ==
  /\ Fresh
  /\ kind = "example" /\ rate_limit = 1 /\ max_concurrent_downloads = 1
  /\ files = [p \in Paths |-> "absent"]
  /\ driver = "batch"
  /\ timeout = DEFAULT_TIMEOUT
  /\ NoSetup /\ NoNaming
  /\ NoCli
  /\ batchPc = "gathering"
  /\ api_keys \in [Sources -> BOOLEAN]
  /\ \E sel \in SUBSET Sources :
       /\ sel # {} /\ Cardinality(sel) <= MaxSources
       /\ tasks = [s \in Sources |-> IF s \in sel THEN "start" ELSE "off"]
  /\ scraperLast = [s \in Sources |-> InitialLastRequestTime]
  /\ scraperSem = [s \in Sources |-> SourcePermits(s)]
  /\ taskWake = [s \in Sources |-> 0]
  /\ taskTodo = [s \in Sources |-> 0]
  /\ downloaded = [s \in Sources |-> 0]
  /\ total_downloads = 0

NextBatch == BatchTick \/ BatchDone \/ \E s \in Sources : TaskStep(s)

SpecBatch == InitBatch /\ [][NextBatch]_vars

\* ------------------------------------------------- the time of a transfer
\* pixabay_scraper.py:213-218 (and the same call in the other adapters):
\* download_file is called without its timeout parameter, whose default
\* bounds the request then; selfTimeout is self.timeout.
RequestTimeout(selfTimeout) == DOWNLOAD_FILE_TIMEOUT

\* The loop time since session.get of the transfer in progress: with one
\* call at a time and an adapter that requests nothing before the file, the
\* request is issued when _respect_rate_limit returns.
Elapsed == TimeSinceLast(now, last_request_time)

Transferring(t) == call[t].pc \in {"fetch", "write"}

\* The timer of the request has not fired.
InTime(t) == Transferring(t) /\ Elapsed < RequestTimeout(timeout)

\* Time passes while the transfer is in progress.
TransferTick ==
  /\ \E t \in Calls : InTime(t)
  /\ now' = now + TimeoutStep
  /\ UNCHANGED <<instance, batch>>

\* download.py:42-64: the response, the chunks, the end of the body.
TransferResponse(t) == InTime(t) /\ FetchResponse(t)

TransferWritten(t) == InTime(t) /\ WriteDone(t)

\* download.py:78-81: aiohttp.ClientError, at any time of the transfer.
TransferClientError(t) ==
  /\ InTime(t)
  /\ FetchFailure(t) \/ WriteFailure(t)
  /\ call'[t].error = NetworkError

\* download.py:83-86: the timer of the request fires, asyncio.TimeoutError.
TransferTimeout(t) ==
  /\ Transferring(t)
  /\ Elapsed >= RequestTimeout(timeout)
  /\ FetchFailure(t) \/ WriteFailure(t)
  /\ call'[t].error = TimeoutError

\* Pixabay download_wallpaper calls, one at a time, on an instance made with
\* a timeout of its own, one of those main.py:70, 93-99 can construct it with.
InitTransfer ==
  /\ Fresh
  /\ driver = "direct"
  /\ kind = "pixabay" /\ api_key
  /\ rate_limit = 1 /\ max_concurrent_downloads = 1
  /\ now = MaxRate
  /\ timeout \in {TimeoutStep, 2 * TimeoutStep, 3 * TimeoutStep}
  /\ NoSetup /\ NoNaming
  /\ NoCli
  /\ NoBatch

NextTransfer ==
  \/ Tick \/ TransferTick
  \/ DirectSupply \/ LoopNext \/ LoopCollect \/ LoopDone
  \/ \E t \in Calls :
       \/ Start(t) \/ Wake(t)
       \/ TransferResponse(t) \/ TransferWritten(t)
       \/ TransferClientError(t) \/ TransferTimeout(t)

SpecTransfer == InitTransfer /\ [][NextTransfer]_vars

\* ------------------------------------------------ the settings of main.py
\* Python's truth of an optional number / string, and `a or b`.
TruthyNum(v) == v # None /\ v[1] # 0
TruthyStr(v) == v # None /\ v[1] # ""
OrNum(a, b) == IF TruthyNum(a) THEN a ELSE b
OrStr(a, b) == IF TruthyStr(a) THEN a ELSE b

\* main.py:64-99
LoadSettings ==
  /\ settings = Unset
  /\ LET \* config.py:40-55: the defaults, updated with the keys of the file.
         LoadConfig(file) ==
           [k \in SettingKeys |->
              IF file[k] # None THEN file[k] ELSE DEFAULT_CONFIG[k]]
         \* main.py:73-80: --api-key, else the variable of the source or
         \* the file.
         MainApiKey(a, env, c) ==
           IF TruthyStr(a.api_key) THEN a.api_key ELSE OrStr(env, c.api_key)
         \* unsplash_scraper.py:60, pixabay_scraper.py:60,
         \* wallhaven_scraper.py:57: the constructor falls back to the
         \* variable once more.
         ScraperApiKey(k, key, env) ==
           OrStr(key, IF k = "wallhaven" /\ env = None THEN Some("") ELSE env)
         conf == LoadConfig(file_config)
     IN settings' =
          [download_directory |-> OrStr(args.download_directory, conf.download_directory),
           rate_limit |-> OrNum(args.rate_limit, conf.rate_limit),
           max_concurrent_downloads |->
             OrNum(args.max_concurrent_downloads, conf.max_concurrent_downloads),
           api_key |-> ScraperApiKey(kind, MainApiKey(args, environ, conf), environ)]
  /\ UNCHANGED <<kind, api_key, rate_limit, max_concurrent_downloads, driver,
                 timeout, args, environ, file_config, naming, now, limiter,
                 semaphore, mainPc, mainWake, wallpapers, call, finished, files,
                 successful_downloads, listObs, cli, batch>>

\* A run of main.py up to the construction of the adapter, with what
\* --rate-limit and --max-concurrent, --api-key and --output can be, and what
\* the file can hold for them.
InitConfig ==
  /\ Fresh
  /\ driver = "cli"
  /\ kind \in Sources /\ ~api_key
  /\ rate_limit = 1 /\ max_concurrent_downloads = 1
  /\ now = 0
  /\ files = [p \in Paths |-> "absent"]
  /\ timeout = DEFAULT_TIMEOUT
  /\ LET ArgNumbers == {None, Some(0), Some(2)}
         ArgStrings == {None, Some(""), Some("arg")}
         FileNumbers == {None, Some(4)}
         FileStrings == {None, Some("file")}
     IN /\ args \in [download_directory : ArgStrings, rate_limit : ArgNumbers,
                     max_concurrent_downloads : ArgNumbers, api_key : ArgStrings]
        /\ environ \in {None, Some(""), Some("env")}
        /\ file_config \in
             [download_directory : FileStrings, rate_limit : FileNumbers,
              max_concurrent_downloads : FileNumbers, api_key : FileStrings]
  /\ settings = Unset
  /\ NoNaming
  /\ NoCli
  /\ NoBatch

NextConfig == LoadSettings

SpecConfig == InitConfig /\ [][NextConfig]_vars

\* --------------------------------------------------------- the file names
\* What str.strip() removes.
Whitespace == {" ", "\t", "\n", "\r"}

\* download.py:118-120
ReplaceInvalid(f) ==
  LET InvalidChars == {"<", ">", ":", "\"", "/", "\\", "|", "?", "*"}
  IN [i \in 1..Len(f) |-> IF f[i] \in InvalidChars THEN "_" ELSE f[i]]

RECURSIVE LStrip(_, _)
LStrip(f, cs) ==
  IF f # <<>> /\ Head(f) \in cs THEN LStrip(Tail(f), cs) ELSE f

RECURSIVE RStrip(_, _)
RStrip(f, cs) ==
  IF f # <<>> /\ f[Len(f)] \in cs THEN RStrip(SubSeq(f, 1, Len(f) - 1), cs) ELSE f

\* str.strip(chars)
Strip(f, cs) == RStrip(LStrip(f, cs), cs)

\* Positions of the character c in p.
Find(p, c) == {i \in 1..Len(p) : p[i] = c}
RFind(p, c) ==
  IF Find(p, c) = {} THEN 0
  ELSE CHOOSE x \in Find(p, c) : \A y \in Find(p, c) : y <= x

\* os.path.splitext: the index of the dot the extension begins at, 0 when the
\* path has no extension (no dot after the last separator, or only leading
\* dots before it in the last component).
SplitExt(p) ==
  LET sep == RFind(p, "/")
      dot == RFind(p, ".")
      ExtIndex ==
        IF dot > sep /\ \E i \in (sep + 1)..(dot - 1) : p[i] # "." THEN dot ELSE 0
  IN IF ExtIndex = 0 THEN <<p, <<>>>>
     ELSE <<SubSeq(p, 1, ExtIndex - 1), SubSeq(p, ExtIndex, Len(p))>>

\* download.py:107-134
sanitize_filename(f) ==
  LET \* download.py:126-128
      LimitLength(g) ==
        IF Len(g) > MAX_FILENAME_LENGTH
        THEN LET base == SplitExt(g)[1]
                 ext == SplitExt(g)[2]
             IN SubSeq(base, 1, Min(Len(base), MAX_FILENAME_LENGTH - Len(ext)))
                  \o ext
        ELSE g
      \* download.py:132
      DefaultName == <<"w", "a", "l", "l", "p", "a", "p", "e", "r">>
      stripped == Strip(Strip(ReplaceInvalid(f), Whitespace), {"."})
      limited == LimitLength(stripped)
  IN IF limited = <<>> THEN DefaultName ELSE limited

Sanitize ==
  /\ sanitized = Unsanitized
  /\ sanitized' = sanitize_filename(filename)
  /\ UNCHANGED <<kind, api_key, rate_limit, max_concurrent_downloads, driver,
                 timeout, setup, filename, wallpaper_data, output_path, now,
                 limiter, semaphore, mainPc,
                 mainWake, wallpapers, call, finished, files, successful_downloads,
                 listObs, cli, batch>>

\* sanitize_filename is called with a string of these characters: a letter,
\* a blank, a dot and two of the invalid characters.
InitSanitize ==
  /\ Fresh
  /\ driver = "direct"
  /\ kind = "example"
  /\ rate_limit = 1 /\ max_concurrent_downloads = 1
  /\ now = 0
  /\ files = [p \in Paths |-> "absent"]
  /\ timeout = DEFAULT_TIMEOUT
  /\ NoSetup
  /\ LET Chars == {"a", " ", ".", "/", "?"}
     IN filename \in UNION {[1..n -> Chars] : n \in 0..MaxNameLen}
  /\ sanitized = Unsanitized
  /\ wallpaper_data = NoData
  /\ output_path = NoPath
  /\ NoCli
  /\ NoBatch

NextSanitize == Sanitize

SpecSanitize == InitSanitize /\ [][NextSanitize]_vars

\* ------------------------------------------------------- the output paths
\* download.py:93-105
get_file_extension_from_url(url) ==
  LET \* download.py:103
      q == Find(url, "?")
      BeforeQuery ==
        IF q = {} THEN url
        ELSE SubSeq(url, 1, (CHOOSE i \in q : \A j \in q : i <= j) - 1)
  IN SplitExt(BeforeQuery)[2]

\* `get_file_extension_from_url(download_url) or '.jpg'`
ExtOf(url) ==
  IF get_file_extension_from_url(url) = <<>> THEN <<".", "j", "p", "g">>
  ELSE get_file_extension_from_url(url)

\* str() of a natural number.
RECURSIVE Str(_)
Str(n) ==
  LET Digits == <<"0", "1", "2", "3", "4", "5", "6", "7", "8", "9">>
  IN IF n < 10 THEN <<Digits[n + 1]>>
     ELSE Str(n \div 10) \o <<Digits[(n % 10) + 1]>>

\* The file name before the extension, as each adapter builds it:
\* example_scraper.py:147-161, wallhaven_scraper.py:257-271 (the title, then
\* the resolution text), unsplash_scraper.py:184-200 (the title and the
\* photographer, then width and height), pixabay_scraper.py:186-202 (the
\* title and the id, then width and height).
FileName(k, d) ==
  LET dims == IF TruthyNum(d.width) /\ TruthyNum(d.height)
              THEN <<"_">> \o Str(d.width[1]) \o <<"x">> \o Str(d.height[1])
              ELSE <<>>
      res == IF d.resolution # <<>> THEN <<"_">> \o d.resolution ELSE <<>>
  IN CASE k \in {"example", "wallhaven"} -> sanitize_filename(d.title) \o res
       [] k = "unsplash" ->
            sanitize_filename(IF TruthyStr(d.username)
                              THEN d.title \o <<"_", "b", "y", "_">> \o d.username[1]
                              ELSE d.title) \o dims
       [] k = "pixabay" ->
            sanitize_filename(d.title \o <<"_">> \o Str(d.id)) \o dims

RECURSIVE Components(_)
\* The components of a path string: split at the separators, without the
\* empty ones and the ones that are a single dot (pathlib).
Components(p) ==
  IF p = <<>> THEN <<>>
  ELSE LET sep == IF Find(p, "/") = {} THEN Len(p) + 1
                  ELSE CHOOSE i \in Find(p, "/") : \A j \in Find(p, "/") : i <= j
           first == SubSeq(p, 1, sep - 1)
           rest == SubSeq(p, sep + 1, Len(p))
       IN (IF first = <<>> \/ first = <<".">> THEN <<>> ELSE <<first>>)
          \o Components(rest)

\* pixabay_scraper.py:194-204 and the same lines of the other adapters.
OutputPath(k, d) ==
  LET \* pathlib's `path / segment`: an absolute segment replaces the path.
      JoinPath(path, seg) ==
        IF seg # <<>> /\ Head(seg) = "/"
        THEN [root |-> "/", parts |-> Components(seg)]
        ELSE [root |-> path.root, parts |-> path.parts \o Components(seg)]
  IN JoinPath(JoinPath([root |-> "download_directory", parts |-> <<>>],
                       d.category),
              FileName(k, d) \o ExtOf(d.download_url))

\* download_wallpaper from the download URL to output_path.
BuildPath ==
  /\ output_path = NoPath
  /\ output_path' = OutputPath(kind, wallpaper_data)
  /\ UNCHANGED <<kind, api_key, rate_limit, max_concurrent_downloads, driver,
                 timeout, setup, filename, sanitized, wallpaper_data, now,
                 limiter, semaphore, mainPc, mainWake, wallpapers, call, finished, files,
                 successful_downloads, listObs, cli, batch>>

\* download_wallpaper is called with a candidate that has a download URL.
\* The fields of the candidates: titles, the category (the query or the
\* category the user asked for), a photographer, sizes, download URLs with
\* and without an extension and a query string.
InitPath ==
  /\ Fresh
  /\ driver = "direct"
  /\ ~api_key
  /\ rate_limit = 1 /\ max_concurrent_downloads = 1
  /\ now = 0
  /\ files = [p \in Paths |-> "absent"]
  /\ timeout = DEFAULT_TIMEOUT
  /\ NoSetup
  /\ filename = <<>>
  /\ sanitized = Unsanitized
  /\ LET Titles == {<<"a">>, <<"a", "/">>}
         Categories == {<<"c">>, <<".", ".">>, <<"/", "c">>}
         Usernames == {None, Some(<<"u">>)}
         Sizes == {None, Some(8)}
         Resolutions == {<<>>, <<"8", "x", "8">>}
         Urls == {<<"u", "/", "f", ".", "p", "?", "q">>, <<"u", "/", "f">>,
                  <<"u", "/", "f", "?", "q", ".", "p">>}
     IN wallpaper_data \in
          [title : Titles, id : {7}, username : Usernames,
           category : Categories, width : Sizes, height : Sizes,
           resolution : Resolutions, download_url : Urls]
  /\ output_path = NoPath
  /\ NoCli
  /\ NoBatch

NextPath == BuildPath

SpecPath == InitPath /\ [][NextPath]_vars

Next ==
  \/ Tick
  \/ LoopSkip \/ ListStart \/ MainWaitWake
  \/ ListFailure \/ ListHttpError \/ ListOk
  \/ DirectSupply \/ Gather \/ GatherDone
  \/ LoopNext \/ LoopCollect \/ LoopRaise \/ LoopDone
  \/ \E t \in Calls :
       \/ Start(t) \/ Wake(t) \/ DetailFailure(t) \/ DetailResponse(t)
       \/ TrackResponse(t) \/ FetchFailure(t) \/ FetchResponse(t)
       \/ WriteDone(t) \/ WriteFailure(t)

Spec == Init /\ [][Next]_vars

\* One get_wallpaper_list call on a fresh instance.
InitList == Init /\ driver = "download_all"

NextList ==
  \/ Tick \/ ListStart \/ MainWaitWake
  \/ ListFailure \/ ListHttpError \/ ListOk

SpecList == InitList /\ [][NextList]_vars

\* One download_all call on a fresh instance.
NextAll ==
  \/ Tick \/ ListStart \/ MainWaitWake
  \/ ListFailure \/ ListHttpError \/ ListOk
  \/ Gather \/ GatherDone
  \/ \E t \in Calls :
       \/ Start(t) \/ Wake(t) \/ DetailFailure(t) \/ DetailResponse(t)
       \/ TrackResponse(t) \/ FetchFailure(t) \/ FetchResponse(t)
       \/ WriteDone(t) \/ WriteFailure(t)

SpecAll == InitList /\ [][NextAll]_vars

\* The phase of a download_all run: 0 Idle, 1 Listing (get_wallpaper_list has
\* been called, no task made yet), 2 Downloading (the tasks are with gather),
\* 3 ended (returned or raised).
Phase(pc) ==
  CASE pc = "idle" -> 0
    [] pc \in {"sleep", "list_req", "listed"} -> 1
    [] pc = "gathering" -> 2
    [] OTHER -> 3

\* A run of main.py with --source wallhaven, no API key, one second between
\* requests and one download at a time, in a new download directory.
InitCli ==
  /\ Fresh
  /\ driver = "cli"
  /\ timeout = DEFAULT_TIMEOUT
  /\ NoSetup /\ NoNaming
  /\ kind = "wallhaven" /\ ~api_key
  /\ rate_limit = 1 /\ max_concurrent_downloads = 1
  /\ now = MaxRate
  /\ files = [p \in Paths |-> "absent"]
  /\ limit \in 0..MaxLimit
  /\ pages \in 1..MaxPages
  /\ page = 1
  /\ cliPc = "listing"
  /\ all_wallpapers = 0
  /\ pageWallpapers = <<>>
  /\ total_downloaded = 0
  /\ NoBatch

NextCli ==
  \/ Tick \/ ListStart \/ MainWaitWake
  \/ ListFailure \/ ListHttpError \/ ListOk
  \/ CliListed \/ Gather \/ GatherDone \/ CliDownloaded
  \/ \E t \in Calls :
       \/ Start(t) \/ Wake(t) \/ DetailFailure(t) \/ DetailResponse(t)
       \/ FetchFailure(t) \/ FetchResponse(t)
       \/ WriteDone(t) \/ WriteFailure(t)

SpecCli == InitCli /\ [][NextCli]_vars

\* One download_all call of the Example and the Wallhaven adapter, in a new
\* download directory, on an event loop that has just started.
InitLive ==
  /\ InitList
  /\ kind \in {"example", "wallhaven"} /\ ~api_key
  /\ files = [p \in Paths |-> "absent"]
  /\ now = 0

\* What the coroutine of download_all does, and what one task does.
MainStep ==
  \/ ListStart \/ MainWaitWake \/ ListFailure \/ ListHttpError \/ ListOk
  \/ Gather \/ GatherDone

CallStep(t) ==
  \/ Start(t) \/ Wake(t) \/ DetailFailure(t) \/ DetailResponse(t)
  \/ FetchFailure(t) \/ FetchResponse(t) \/ WriteDone(t) \/ WriteFailure(t)

NextLive == Tick \/ MainStep \/ \E t \in Calls : CallStep(t)

\* The event loop runs every coroutine that is ready and fires every timer
\* that is due as its clock advances; every network operation completes or
\* times out.
Fairness ==
  /\ WF_vars(Tick)
  /\ WF_vars(MainStep)
  /\ \A t \in Calls : WF_vars(CallStep(t))

SpecLive == InitLive /\ [][NextLive]_vars /\ Fairness

\* The drivers that await one download_wallpaper at a time.
InitSeq == Init /\ driver \in {"loop", "direct"}

NextSeq ==
  \/ Tick
  \/ LoopSkip \/ ListStart \/ MainWaitWake
  \/ ListFailure \/ ListHttpError \/ ListOk
  \/ DirectSupply \/ LoopNext \/ LoopCollect \/ LoopRaise \/ LoopDone
  \/ \E t \in Calls :
       \/ Start(t) \/ Wake(t) \/ DetailFailure(t) \/ DetailResponse(t)
       \/ TrackResponse(t) \/ FetchFailure(t) \/ FetchResponse(t)
       \/ WriteDone(t) \/ WriteFailure(t)

SpecSeq == InitSeq /\ [][NextSeq]_vars

\* ------------------------------------------------------------------ claims
\* C1: any two returns of _respect_rate_limit on one instance are at least
\* rate_limit apart, under every interleaving of the tasks that call it
\* (the download tasks of download_all included).
C1_Spacing == minGap = <<>> \/ minGap[1] >= rate_limit

\* C2: the number of download_wallpaper calls inside their permit-protected
\* section never exceeds max_concurrent_downloads.
C2_AtMostN == Cardinality(Holding) <= max_concurrent_downloads

\* Every permit is taken while a further call is kept waiting for one.
C2_PoolFull ==
  /\ Cardinality(Holding) = max_concurrent_downloads
  /\ \E t \in Calls : call[t].pc = "start"

\* C3: every download_wallpaper call holds exactly one permit from before its
\* first network request until it ends, whatever its outcome: the free
\* permits are always N less the calls in progress (N when there is none),
\* and a call that has issued a request is in progress or has ended.
C3_PermitAccounting ==
  /\ semaphore + Cardinality(Holding) = max_concurrent_downloads
  /\ \A t \in Calls : call[t].reqs > 0 => call[t].pc \in InsidePcs \cup {"done"}
  /\ Holding = {} => semaphore = max_concurrent_downloads

\* A call has ended by raising and no download is in progress.
C3_ReleasedAfterException ==
  /\ \E t \in Calls : call[t].pc = "done" /\ call[t].result = "exception"
  /\ Holding = {}

\* C4: when _respect_rate_limit is called in sequence, every return after the
\* first is no earlier than rate_limit after the time the previous call
\* recorded.
C4_SequentialSpacing ==
  [][(dispatches > 0 /\ dispatches' = dispatches + 1)
       => last_request_time' >= last_request_time + rate_limit]_vars

\* A second call in sequence has returned, exactly rate_limit after the first.
C4_SecondCallSlept == dispatches >= 2 /\ minGap = <<rate_limit>>

\* C5 as stated: a call that finds its output path existing returns the path
\* and issues no network request at all.
C5_NoRequestAtAll ==
  \A t \in Calls :
    (call[t].pc = "done" /\ call[t].existed)
      => (call[t].result = "path" /\ call[t].reqs = 0)

\* C5 amended: a call that finds its output path existing returns the path
\* and makes no file request (download_file is not called); the only request
\* it can have issued is the detail page request of the Wallhaven adapter for
\* a candidate without download_url, which precedes the computation of the
\* path.
C5_NoFileRequest ==
  \A t \in Calls :
    call[t].existed
      => /\ call[t].pc = "done"
         /\ call[t].result = "path"
         /\ call[t].fileReqs = 0
         /\ \/ call[t].reqs = 0
            \/ kind = "wallhaven" /\ call[t].cand.urls = "secondary"
               /\ call[t].reqs = 1

\* A download wrote the file and a second download of the same path found it.
C5_SecondDownloadSkips ==
  \E t1, t2 \in Calls :
    /\ t1 # t2
    /\ call[t1].pc = "done" /\ call[t1].wrote /\ call[t1].result = "path"
    /\ call[t2].pc = "done" /\ call[t2].existed
    /\ call[t2].cand.path = call[t1].cand.path

\* C6: when the response to the file request has a non-2xx status,
\* download_file returns a failure whose reason contains the status code and
\* the call has not created the file.
C6_HttpErrorNoFile ==
  \A t \in Calls :
    (call[t].status # 0 /\ call[t].status \notin 200..299)
      => /\ call[t].pc = "done"
         /\ call[t].result = "none"
         /\ Len(call[t].error) = 2 /\ call[t].error[2] = call[t].status
         /\ ~call[t].wrote

\* The file request was answered 404.
C6_NotFound == \E t \in Calls : call[t].status = 404 /\ call[t].pc = "done"

\* C7: get_wallpaper_list has called _respect_rate_limit, and it has
\* returned, exactly once for each network request the call has made; a call
\* that returns early has made neither.
C7_OneWaitPerRequest ==
  /\ listReqs = listWaits
  /\ listWaits <= 1
  /\ mainPc = "list_req" => listWaits = 1

\* The listing has returned after its one request.
C7_ListedAfterRequest == mainPc = "listed" /\ listReqs = 1 /\ listWaits = 1

\* C8: without an API key the get_wallpaper_list of Unsplash and Pixabay
\* returns the empty list, issues no request and leaves the rate limiter state
\* as it was.
C8_NoKeyEmptyList ==
  (kind \in NeedsKey /\ ~api_key)
    => /\ mainPc \in {"idle", "listed"}
       /\ wallpapers = <<>>
       /\ listReqs = 0 /\ listWaits = 0
       /\ last_request_time = listLastBefore /\ dispatches = 0

\* The listing of an adapter that needs a key has returned without one.
C8_NoKeyListed == kind \in NeedsKey /\ ~api_key /\ mainPc = "listed"

\* C9: without an API key the download_wallpaper of Unsplash and Pixabay
\* returns None and issues no network request, for every candidate.
C9_NoKeyNoDownload ==
  \A t \in Calls :
    (kind \in NeedsKey /\ ~api_key)
      => /\ call[t].reqs = 0
         /\ call[t].pc = "done" => call[t].result = "none"

\* C10: a 200 listing response with k well-formed and m malformed entries
\* yields exactly the candidates of the well-formed entries and one warning
\* for each malformed entry.
C10_MalformedSkipped ==
  mainPc = "listed" => (wallpapers = wellFormed /\ warnings = malformed)

\* C11: a candidate whose highest-ranked URL field is absent and that has a
\* lower-ranked URL field is not refused with "No URL available for
\* download": the download step resolves to the lower-ranked URL.
C11_FallsBackToLowerRanked ==
  \A t \in Calls :
    (call[t].pc = "done" /\ call[t].cand.urls = "secondary")
      => call[t].error # NoUrlError

\* C12: a run of download_all goes through Idle, Listing, Downloading, Done in
\* that order: no download_wallpaper call has started while the listing has
\* not returned, no step goes back to an earlier phase and no listing request
\* or wait is made once the tasks exist, and download_all has returned only
\* when every download it started has ended.
C12_PhaseOrder ==
  /\ [](/\ Phase(mainPc) <= 1 => \A t \in Calls : call[t].pc = "none"
        /\ mainPc = "done" => \A t \in Calls : call[t].pc \in {"none", "collected"})
  /\ [][/\ Phase(mainPc') >= Phase(mainPc)
        /\ Phase(mainPc) >= 2 => (listReqs' = listReqs /\ listWaits' = listWaits)]_vars

\* download_all has returned after a listing of two candidates whose
\* downloads have both ended.
C12_ReturnedAfterDownloads ==
  /\ mainPc = "done" /\ Len(wallpapers) = 2
  /\ \A t \in 1..2 : call[t].pc = "collected"

\* C13: with a limit given, the number of candidates for which a download is
\* attempted during the run of main never exceeds the limit; without a limit,
\* when the run has ended every candidate main has listed has been attempted.
C13_AtMostLimit ==
  /\ limit > 0 => attempted <= limit
  /\ (limit = 0 /\ cliPc = "ended") => attempted = all_wallpapers

\* C14: in a run of main, the candidates handed to the download step for a
\* page are exactly the candidates the listing call of main returned for that
\* page.
C14_DownloadsPageListing ==
  (driver = "cli" /\ mainPc = "gathering") => wallpapers = pageWallpapers

\* C15: in a batch of several adapters the failure of one (no credential, an
\* exception of its listing or of one of its downloads) stops no other: while
\* the batch runs every task that has not ended can go on, the batch ends
\* only when every task has ended, every task that returned has been through
\* all its candidates, and the total is the sum of the downloads of the
\* tasks that returned.
C15_FailuresCollected ==
  LET Ended(s) == tasks[s] \in {"off", "returned", "raised"}
      Got(s) == IF tasks[s] = "returned" THEN downloaded[s] ELSE 0
  IN /\ batchPc = "gathering"
          => \A s \in Sources : ~Ended(s) => ENABLED (TaskStep(s) \/ BatchTick)
     /\ batchPc = "done"
          => /\ \A s \in Sources : Ended(s)
             /\ \A s \in Sources : tasks[s] = "returned" => taskTodo[s] = 0
             /\ total_downloads = Got("unsplash") + Got("wallhaven") + Got("pixabay")

\* The batch has ended: one task raised, another returned with a download
\* that the total counts.
C15_OneFailedOthersCounted ==
  /\ batchPc = "done"
  /\ \E a, b \in Sources :
       /\ tasks[a] = "raised"
       /\ tasks[b] = "returned" /\ downloaded[b] > 0
       /\ total_downloads = downloaded[b]

\* C18: the rate limiter state and the permit pool belong to one adapter
\* instance: a step in which the task of source b does not move leaves the
\* last request time and the free permits of b's scraper as they were,
\* whatever the other scrapers do.
C18_InstancePrivate ==
  [][\A b \in Sources :
       tasks'[b] = tasks[b]
         => (scraperLast'[b] = scraperLast[b] /\ scraperSem'[b] = scraperSem[b])]_vars

\* Two scrapers are each inside a download, with last request times of
\* their own and a permit taken from each pool.
C18_TwoScrapersBusy ==
  \E a, b \in Sources :
    /\ a # b
    /\ tasks[a] = "dl_req" /\ tasks[b] = "dl_req"
    /\ scraperLast[a] # scraperLast[b]
    /\ scraperSem[a] = SourcePermits(a) - 1
    /\ scraperSem[b] = SourcePermits(b) - 1

\* C16: within one download_all call a download that returns None or raises
\* does not end the batch: a task exists for every candidate of the listing,
\* no step takes download_all from gather to an exception, and when it
\* returns every task has ended and the value returned is exactly the paths
\* of the downloads that returned one, in the order of the candidates.
C16_FailuresDoNotStopBatch ==
  /\ [](mainPc = "gathering"
          => \A t \in 1..Len(wallpapers) : call[t].pc # "none")
  /\ [][mainPc = "gathering"
          => /\ mainPc' # "raised"
             /\ mainPc' = "done"
                  => LET IsPath(t) == call[t].result = "path"
                         ok == SelectSeq([t \in 1..Len(wallpapers) |-> t], IsPath)
                     IN /\ \A t \in 1..Len(wallpapers) : call[t].pc = "done"
                        /\ successful_downloads'
                             = [i \in 1..Len(ok) |-> wallpapers[ok[i]].path]]_vars

\* download_all has returned one path for a listing of two candidates.
C16_OneOfTwoSucceeded ==
  /\ driver = "download_all" /\ mainPc = "done"
  /\ Len(wallpapers) = 2 /\ Len(successful_downloads) = 1

\* C17: when a download_all run has returned, it has reported one outcome
\* for each candidate it attempted: the successes and the failures it
\* reports add up to the number of candidates.
C17_OutcomePerCandidate ==
  mainPc = "done"
    => Len(successful_downloads) + Len(failed_downloads) = Len(wallpapers)

\* C19: a file left incomplete by a transfer that failed part-way is never
\* reported as a successful download: a call that returns the path of a file
\* it found existing has found a complete file.
C19_PartialNeverSuccess ==
  \A t \in Calls :
    (call[t].pc = "done" /\ call[t].result = "path" /\ call[t].existed)
      => files[call[t].cand.path] = "complete"

\* C20: no destination file is written by more than one task at a time: two
\* download_wallpaper calls of one batch are never both writing to the same
\* output path.
C20_OneWriterPerFile ==
  \A t1, t2 \in Calls :
    (t1 # t2 /\ call[t1].pc = "write" /\ call[t2].pc = "write")
      => call[t1].cand.path # call[t2].cand.path

\* C21: a file transfer that has not completed within the request timeout
\* configured for the adapter instance ends as a failure whose reason names a
\* timeout, distinct from the reason of a connection error: no transfer is
\* in progress longer than self.timeout after its request, and a transfer
\* that ends later than that ends with the timeout reason.
C21_TimesOutAsConfigured ==
  /\ TimeoutError # NetworkError
  /\ [](\A t \in Calls : Transferring(t) => Elapsed <= timeout)
  /\ [][\A t \in Calls :
          (Transferring(t) /\ call'[t].pc = "done" /\ Elapsed > timeout)
            => call'[t].error = TimeoutError]_vars

\* C22: a download_wallpaper call makes at most one attempt to transfer the
\* file: it issues at most one file request, and once a request of the call
\* has failed (connection error, timeout, HTTP error) the call has ended with
\* a failure outcome, without a further request.
C22_SingleAttempt ==
  \A t \in Calls :
    /\ call[t].fileReqs <= 1
    /\ (call[t].error # NoError /\ call[t].error # NoUrlError)
         => /\ call[t].pc = "done"
            /\ call[t].result \in {"none", "exception"}

\* A file request timed out and the call has ended with it, after that one
\* request, for a candidate of an adapter with lower-ranked URL fields.
C22_FailedOnce ==
  \E t \in Calls :
    /\ kind = "pixabay" /\ call[t].cand.urls = "primary"
    /\ call[t].pc = "done" /\ call[t].result = "none"
    /\ call[t].error = TimeoutError /\ call[t].fileReqs = 1

\* C23: each run setting takes the value of the command-line argument
\* whenever one is given, 0 included, otherwise the environment variable
\* (the API key has one; it counts as given when it is not empty), otherwise
\* the value of the configuration file, otherwise the built-in default, which
\* is not null for download_directory, rate_limit and
\* max_concurrent_downloads. An API key that is empty is no API key.
C23_Precedence ==
  LET First(arg, env, file, default) ==
        IF arg # None THEN arg ELSE IF TruthyStr(env) THEN env
        ELSE IF file # None THEN file ELSE default
      Key(v) == IF TruthyStr(v) THEN v ELSE None
      Required == {"download_directory", "rate_limit", "max_concurrent_downloads"}
  IN /\ \A k \in Required : DEFAULT_CONFIG[k] # None
     /\ settings # Unset
          => /\ \A k \in Required :
                  settings[k] = First(args[k], None, file_config[k], DEFAULT_CONFIG[k])
             /\ Key(settings.api_key)
                  = Key(First(args.api_key, environ, file_config.api_key,
                              DEFAULT_CONFIG.api_key))

\* C24: sanitize_filename replaces each of the characters < > : " / \ | ? *
\* by one underscore and leaves every other character in place (but for the
\* whitespace and dots it takes off the two ends), and its result has no
\* leading or trailing whitespace or dot and is never empty.
C24_SanitizedName ==
  LET r == [i \in 1..Len(filename) |->
              IF filename[i] \in {"<", ">", ":", "\"", "/", "\\", "|", "?", "*"}
              THEN "_" ELSE filename[i]]
      Edge == {" ", "\t", "\n", "\r", "."}
      Cut(i, j) == \A k \in (1..(i - 1)) \cup ((j + 1)..Len(r)) : r[k] \in Edge
  IN sanitized # Unsanitized
       => /\ sanitized # <<>>
          /\ sanitized[1] \notin Edge
          /\ sanitized[Len(sanitized)] \notin Edge
          /\ \/ \E i \in 1..(Len(r) + 1), j \in 0..Len(r) :
                  sanitized = SubSeq(r, i, j) /\ Cut(i, j)
             \/ /\ Cut(1, 0)
                /\ sanitized = <<"w", "a", "l", "l", "p", "a", "p", "e", "r">>

\* C25: for every adapter and candidate the output path is
\* download_directory / category / name, the name being the sanitized title,
\* followed by _<width>x<height> when both are known (the resolution text of
\* the adapters that keep the size as text), and the extension of the
\* download URL without its query string ('.jpg' when it has none); the
\* path lies inside download_directory.
C25_Layout ==
  LET d == wallpaper_data
      size == IF kind \in {"example", "wallhaven"}
              THEN (IF d.resolution # <<>> THEN <<"_">> \o d.resolution ELSE <<>>)
              ELSE (IF d.width # None /\ d.height # None
                    THEN <<"_">> \o Str(d.width[1]) \o <<"x">> \o Str(d.height[1])
                    ELSE <<>>)
      name == sanitize_filename(d.title) \o size \o ExtOf(d.download_url)
      Depth(n) == Cardinality({i \in 1..n : output_path.parts[i] # <<".", ".">>})
                    - Cardinality({i \in 1..n : output_path.parts[i] = <<".", ".">>})
  IN output_path # NoPath
       => /\ output_path = [root |-> "download_directory",
                            parts |-> <<d.category, name>>]
          /\ \A n \in 1..Len(output_path.parts) : Depth(n) >= 0
          /\ Depth(Len(output_path.parts)) > 0

\* C26: when every network operation completes or times out, every download
\* task download_all has started gets a permit and ends, and download_all
\* ends: it returns once its listing has returned, and it has ended
\* otherwise only by the exception of the listing request, with no task
\* started.
C26_DownloadAllEnds ==
  /\ \A t \in Calls :
       (call[t].pc = "start")
         ~> (call[t].pc = "done" /\ semaphore + Cardinality(Holding) = max_concurrent_downloads)
  /\ (mainPc = "listed") ~> (mainPc = "done")
  /\ <>(mainPc \in {"done", "raised"})
  /\ [](mainPc = "raised" => \A t \in Calls : call[t].pc = "none")

\* download_all has returned after two tasks that shared the one permit.
C26_BothThroughOnePermit ==
  /\ mainPc = "done" /\ max_concurrent_downloads = 1
  /\ Len(wallpapers) = 2
  /\ \A t \in 1..2 : call[t].pc = "collected"

C28_Only200Succeeds ==
  /\ (mainPc = "listed" /\ listStatus \notin {0, 200}) => wallpapers = <<>>
  /\ \A t \in Calls :
       /\ call[t].detail \notin {0, 200}
            => /\ call[t].pc = "done" /\ call[t].result = "none"
               /\ call[t].fileReqs = 0 /\ ~call[t].wrote
       /\ call[t].status \notin {0, 200}
            => /\ call[t].pc = "done" /\ call[t].result = "none"
               /\ call[t].error = HttpError(call[t].status)
               /\ ~call[t].wrote

\* The file request was answered 204 and the call has ended without the file.
C28_NoContentFails ==
  \E t \in Calls :
    /\ call[t].status = 204 /\ call[t].pc = "done"
    /\ files[call[t].cand.path] = "absent"

\* C29: the paths download_all returns are in the relative order of their
\* candidates in the listing, in whatever order the downloads ended, and
\* they are no more than the candidates listed: the value returned is the
\* listing's paths at strictly increasing positions.
C29_ListingOrder ==
  (driver = "download_all" /\ mainPc = "done")
    => /\ Len(successful_downloads) <= Len(wallpapers)
       /\ \E f \in [1..Len(successful_downloads) -> 1..Len(wallpapers)] :
            /\ \A i, j \in 1..Len(successful_downloads) : i < j => f[i] < f[j]
            /\ \A i \in 1..Len(successful_downloads) :
                 successful_downloads[i] = wallpapers[f[i]].path

\* download_all has returned the two different paths of its listing in the
\* order of the listing, and the download of the second ended first.
C29_SecondEndedFirst ==
  /\ driver = "download_all" /\ mainPc = "done"
  /\ finished = <<2, 1>>
  /\ Len(successful_downloads) = 2
  /\ successful_downloads[1] # successful_downloads[2]
  /\ successful_downloads = <<wallpapers[1].path, wallpapers[2].path>>

\* C30: whatever the request and the write do - an HTTP error, a connection
\* error, a timeout, any other exception - download_file hands its caller
\* success without a reason or failure with a reason, never an exception,
\* and success only from the end of the chunk loop, the file written whole.
C30_TrueOrReason ==
  [][\A t \in Calls :
       (call[t].pc \in {"fetch", "write"} /\ call'[t].pc = "done")
         => \/ /\ call'[t].result = "path" /\ call'[t].error = NoError
               /\ call[t].pc = "write" /\ call[t].wrote
               /\ files'[call[t].cand.path] = "complete"
            \/ call'[t].result = "none" /\ call'[t].error # NoError]_vars

\* An exception that is neither a ClientError nor a timeout stopped the
\* write part-way: the call ended without a path, with the reason, and the
\* file is there in part.
C30_OtherExceptionInWrite ==
  \E t \in Calls :
    /\ call[t].pc = "done" /\ call[t].fileReqs = 1 /\ call[t].wrote
    /\ call[t].result = "none" /\ call[t].error = OtherError
    /\ files[call[t].cand.path] = "partial"
====
